---------------------------- MODULE Spec2Model ----------------------------
(***************************************************************************)
(* A model of the indexer (src/indexer.py), of the search engine           *)
(* (src/search_engine.py) and of the crawler (src/crawler.py) of the       *)
(* crawler repository.                                                     *)
(*                                                                         *)
(* A Python str is a sequence of one-character strings, a token is such a  *)
(* sequence too, a dict is a function (its keys are its DOMAIN), a list is *)
(* a sequence and a set is a set.  An operation that can raise returns a   *)
(* record whose field "raised" tells whether it did.                       *)
(***************************************************************************)
EXTENDS Integers, Sequences, FiniteSets, TLC

VARIABLES
    pc,                          \* position of the running program
    error,                       \* the exception that ended it, or NoError
    \* indexer.main
    data,
    title_index,
    description_index,
    title_positional_index,
    description_positional_index,
    reviews_index,
    features_index,
    \* indexer.tokenize, applied to its own output
    text,
    tok,
    joined,
    tok2,
    \* search_engine.__main__
    indexes,
    products,
    query,
    tokens,
    expanded_tokens,
    matching_docs,
    all_docs,
    ranked_docs,
    results_log,
    test_queries,
    todo,                        \* the queries the running loop has yet to take
    seed,                        \* the running process's hash seed
    runs,                        \* how many times the program was started
    \* crawler.crawl
    start_url,
    max_pages,
    robots,                      \* the URLs the site's robots.txt disallows
    queue,
    visited,
    results

indexerVars == <<data, title_index, description_index, title_positional_index,
                 description_positional_index, reviews_index, features_index>>
tokenizeVars == <<text, tok, joined, tok2>>
runVars == <<test_queries, todo, seed, runs>>
searchVars == <<indexes, products, query, tokens, expanded_tokens,
                matching_docs, all_docs, ranked_docs, results_log, runVars>>
crawlerVars == <<start_url, max_pages, robots, queue, visited, results>>
vars == <<pc, error, indexerVars, tokenizeVars, searchVars, crawlerVars>>

NoError == [raised |-> FALSE]
EmptyDict == <<>>

Range(s) == {s[i] : i \in DOMAIN s}

\* dict.get(key, default)
Get(d, key, default) == IF key \in DOMAIN d THEN d[key] ELSE default

\* d[key] = value
Put(d, key, value) ==
    [k \in DOMAIN d \cup {key} |-> IF k = key THEN value ELSE d[k]]

\* All sequences over S of length at most n.
SeqsUpTo(S, n) == UNION {[1..k -> S] : k \in 0..n}

-----------------------------------------------------------------------------
(* Characters *)

UpperChars == <<"A","B","C","D","E","F","G","H","I","J","K","L","M",
                "N","O","P","Q","R","S","T","U","V","W","X","Y","Z">>
LowerChars == <<"a","b","c","d","e","f","g","h","i","j","k","l","m",
                "n","o","p","q","r","s","t","u","v","w","x","y","z">>

\* A character outside ASCII, written by its code point: the right single
\* quotation mark, which string.punctuation does not hold.
RightQuote == "U+2019"

\* The grave accent, which a TLA+ string cannot hold.
Backtick == "U+0060"

\* string.punctuation
Punctuation ==
    {"!", "\"", "#", "$", "%", "&", "'", "(", ")", "*", "+", ",", "-", ".",
     "/", ":", ";", "<", "=", ">", "?", "@", "[", "\\", "]", "^", "_", Backtick,
     "{", "|", "}", "~"}

\* What str.split() splits on (the ASCII part).
Whitespace == {" ", "\t", "\n", "\r", "\f"}

IsUpper(c) == \E i \in DOMAIN UpperChars : UpperChars[i] = c

\* str.lower(), one character
LowerChar(c) ==
    IF IsUpper(c)
    THEN LowerChars[CHOOSE i \in DOMAIN UpperChars : UpperChars[i] = c]
    ELSE c

Lower(s) == [i \in DOMAIN s |-> LowerChar(s[i])]

\* str.translate(str.maketrans('', '', string.punctuation))
StripPunctuation(s) == SelectSeq(s, LAMBDA c : c \notin Punctuation)

\* str.split(): the maximal runs of non-whitespace characters, in order.
RECURSIVE SplitFrom(_, _, _, _)
SplitFrom(s, i, word, acc) ==
    IF i > Len(s)
    THEN IF word = <<>> THEN acc ELSE Append(acc, word)
    ELSE IF s[i] \in Whitespace
         THEN SplitFrom(s, i + 1, <<>>,
                        IF word = <<>> THEN acc ELSE Append(acc, word))
         ELSE SplitFrom(s, i + 1, Append(word, s[i]), acc)

Split(s) == SplitFrom(s, 1, <<>>, <<>>)

\* " ".join(words)
RECURSIVE Join(_)
Join(words) ==
    IF words = <<>> THEN <<>>
    ELSE IF Len(words) = 1 THEN words[1]
    ELSE words[1] \o <<" ">> \o Join(Tail(words))

-----------------------------------------------------------------------------
(* indexer.py: STOPWORDS and tokenize *)

STOPWORDS == {
    <<"a">>, <<"a","n">>, <<"a","n","d">>, <<"a","r","e">>, <<"a","s">>, <<"a","t">>,
    <<"b","e">>, <<"b","u","t">>, <<"b","y">>, <<"f","o","r">>, <<"i","f">>, <<"i","n">>,
    <<"i","n","t","o">>, <<"i","s">>, <<"i","t">>, <<"n","o">>, <<"n","o","t">>,
    <<"o","f">>, <<"o","n">>, <<"o","r">>, <<"s","u","c","h">>, <<"t","h","a","t">>,
    <<"t","h","e">>, <<"t","h","e","i","r">>, <<"t","h","e","n">>,
    <<"t","h","e","r","e">>, <<"t","h","e","s","e">>, <<"t","h","e","y">>,
    <<"t","h","i","s">>, <<"t","o">>, <<"w","a","s">>, <<"w","i","l","l">>,
    <<"w","i","t","h">> }

TokenizeKeepStopwords(s) == Split(StripPunctuation(Lower(s)))
Tokenize(s) ==
    SelectSeq(Split(StripPunctuation(Lower(s))), LAMBDA t : t \notin STOPWORDS)

-----------------------------------------------------------------------------
(* tokenize applied to its own output, joined by spaces *)

MaxTextLen == 4
TextAlphabet == {"a", "A", "n", "-", " ", RightQuote}
Texts == SeqsUpTo(TextAlphabet, MaxTextLen)

Unset == <<>>

IndexerIdle ==
    /\ data = <<>>
    /\ title_index = Unset
    /\ description_index = Unset
    /\ title_positional_index = Unset
    /\ description_positional_index = Unset
    /\ reviews_index = Unset
    /\ features_index = Unset

RunIdle ==
    /\ test_queries = <<>>
    /\ todo = <<>>
    /\ seed = Unset
    /\ runs = 0

SearchIdle ==
    /\ indexes = Unset
    /\ products = Unset
    /\ query = <<>>
    /\ tokens = <<>>
    /\ expanded_tokens = <<>>
    /\ matching_docs = {}
    /\ all_docs = {}
    /\ ranked_docs = <<>>
    /\ results_log = <<>>
    /\ RunIdle

CrawlerIdle ==
    /\ start_url = Unset
    /\ max_pages = 0
    /\ robots = {}
    /\ queue = <<>>
    /\ visited = {}
    /\ results = <<>>

TokenizeIdle ==
    /\ text = <<>>
    /\ tok = <<>>
    /\ joined = <<>>
    /\ tok2 = <<>>

InitTokenize ==
    /\ pc = "text"
    /\ error = NoError
    /\ text \in Texts
    /\ tok = <<>>
    /\ joined = <<>>
    /\ tok2 = <<>>
    /\ IndexerIdle
    /\ SearchIdle
    /\ CrawlerIdle

TokenizeText ==
    /\ pc = "text"
    /\ tok' = Tokenize(text)
    /\ pc' = "tokenized"
    /\ UNCHANGED <<error, text, joined, tok2, indexerVars, searchVars, crawlerVars>>

JoinTokens ==
    /\ pc = "tokenized"
    /\ joined' = Join(tok)
    /\ pc' = "joined"
    /\ UNCHANGED <<error, text, tok, tok2, indexerVars, searchVars, crawlerVars>>

TokenizeJoined ==
    /\ pc = "joined"
    /\ tok2' = Tokenize(joined)
    /\ pc' = "retokenized"
    /\ UNCHANGED <<error, text, tok, joined, indexerVars, searchVars, crawlerVars>>

NextTokenize == TokenizeText \/ JoinTokens \/ TokenizeJoined

SpecTokenize == InitTokenize /\ [][NextTokenize]_vars

(* The words of a text as a reader sees them: the maximal runs of characters
   that are neither punctuation nor whitespace. *)
Words(s) ==
    Split([i \in DOMAIN s |-> IF s[i] \in Punctuation THEN " " ELSE s[i]])

TokenIsClean(t) ==
    /\ t # <<>>
    /\ t \notin STOPWORDS
    /\ \A i \in DOMAIN t : ~IsUpper(t[i]) /\ t[i] \notin Punctuation

(* C10, as amended: tokenize(" ".join(tokenize(x))) = tokenize(x); every
   output token is non-empty, holds no upper-case letter and no character of
   string.punctuation, and is no stop-word; and a text whose
   whitespace-separated words are each, once lower-cased and stripped of
   punctuation, empty or a stop-word yields the empty sequence. *)
C10_TokenizeIdempotent ==
    /\ pc = "retokenized" => tok2 = tok
    /\ pc # "text" => \A i \in DOMAIN tok : TokenIsClean(tok[i])
    /\ ( /\ pc # "text"
         /\ \A w \in Range(Split(text)) :
               StripPunctuation(Lower(w)) \in STOPWORDS \cup {<<>>} )
       => tok = <<>>

(* C10's case: a text with an upper-case letter and punctuation, one of whose
   words is dropped and another kept, tokenized twice. *)
C10_Witness ==
    /\ pc = "retokenized"
    /\ tok # <<>>
    /\ Len(tok) < Len(Split(text))
    /\ \E i \in DOMAIN text : text[i] \in Punctuation
    /\ \E i \in DOMAIN text : IsUpper(text[i])

(* C10 as stated: the same, but with the empty result promised for every text
   made of only punctuation, whitespace and stop-words. *)
C10_AsStated ==
    /\ pc = "retokenized" => tok2 = tok
    /\ pc # "text" => \A i \in DOMAIN tok : TokenIsClean(tok[i])
    /\ ( /\ pc # "text"
         /\ \A w \in Range(Words(text)) : Lower(w) \in STOPWORDS )
       => tok = <<>>

-----------------------------------------------------------------------------
(* indexer.py: the index builders *)

None == [none |-> TRUE]
KeyError(key) == [raised |-> TRUE, type |-> "KeyError", key |-> key]
Returned(index) == [raised |-> FALSE, index |-> index]

\* The URLs of the model, and what the regular expression of
\* extract_product_info finds in each.
Url1 == "https://shop.example/product/1"
Url2 == "https://shop.example/product/2?variant=red"
Urls == {Url1, Url2}

extract_product_info(url) ==
    CASE url = Url1 -> [product_id |-> <<"1">>, variant |-> None]
      [] url = Url2 -> [product_id |-> <<"2">>, variant |-> <<"r","e","d">>]
      [] OTHER -> [product_id |-> None, variant |-> None]

\* The inner loop of create_inverted_index: one document's tokens.
RECURSIVE InvertedAddTokensTwice(_, _, _)
InvertedAddTokensTwice(index, doc, toks) ==
    IF toks = <<>> THEN Returned(index)
    ELSE IF "url" \notin DOMAIN doc THEN KeyError("url")
    ELSE InvertedAddTokensTwice(
             Put(index, Head(toks), Append(Get(index, Head(toks), <<>>), doc.url)),
             doc, Tail(toks))

RECURSIVE InvertedAddTokens(_, _, _)
InvertedAddTokens(index, doc, toks) ==
    IF toks = <<>> THEN Returned(index)
    ELSE IF "url" \notin DOMAIN doc THEN KeyError("url")
    ELSE LET token == Head(toks)
             listed == Get(index, token, <<>>)
         IN  InvertedAddTokens(
                 IF doc.url \in Range(listed)
                 THEN Put(index, token, listed)
                 ELSE Put(index, token, Append(listed, doc.url)),
                 doc, Tail(toks))

RECURSIVE InvertedAddDocs(_, _, _, _)
InvertedAddDocs(index, docs, field, i) ==
    IF i > Len(docs) THEN Returned(index)
    ELSE LET r == InvertedAddTokens(index, docs[i],
                                    Tokenize(Get(docs[i], field, <<>>)))
         IN  IF r.raised THEN r ELSE InvertedAddDocs(r.index, docs, field, i + 1)

create_inverted_index(docs, field) == InvertedAddDocs(EmptyDict, docs, field, 1)

\* The inner loop of create_positional_index: enumerate(tokens) from pos.
RECURSIVE PositionalAddTokensFromOne(_, _, _, _)
PositionalAddTokensFromOne(index, doc, toks, pos) ==
    IF pos >= Len(toks) THEN Returned(index)
    ELSE IF "url" \notin DOMAIN doc THEN KeyError("url")
    ELSE LET token == toks[pos + 1]
             byUrl == Get(index, token, EmptyDict)
             positions == Get(byUrl, doc.url, <<>>)
         IN  PositionalAddTokensFromOne(
                 Put(index, token, Put(byUrl, doc.url, Append(positions, pos + 1))),
                 doc, toks, pos + 1)

RECURSIVE PositionalAddTokens(_, _, _, _)
PositionalAddTokens(index, doc, toks, pos) ==
    IF pos >= Len(toks) THEN Returned(index)
    ELSE IF "url" \notin DOMAIN doc THEN KeyError("url")
    ELSE LET token == toks[pos + 1]
             byUrl == Get(index, token, EmptyDict)
             positions == Get(byUrl, doc.url, <<>>)
         IN  PositionalAddTokens(
                 Put(index, token, Put(byUrl, doc.url, Append(positions, pos))),
                 doc, toks, pos + 1)

RECURSIVE PositionalAddDocs(_, _, _, _)
PositionalAddDocs(index, docs, field, i) ==
    IF i > Len(docs) THEN Returned(index)
    ELSE LET r == PositionalAddTokens(index, docs[i],
                                      Tokenize(Get(docs[i], field, <<>>)), 0)
         IN  IF r.raised THEN r ELSE PositionalAddDocs(r.index, docs, field, i + 1)

create_positional_index(docs, field) ==
    PositionalAddDocs(EmptyDict, docs, field, 1)

\* [review.get('rating', 0) for review in reviews if 'rating' in review]
RECURSIVE Ratings(_)
Ratings(reviews) ==
    IF reviews = <<>> THEN <<>>
    ELSE IF "rating" \in DOMAIN Head(reviews)
         THEN <<Head(reviews).rating>> \o Ratings(Tail(reviews))
         ELSE Ratings(Tail(reviews))

RECURSIVE Sum(_)
Sum(s) == IF s = <<>> THEN 0 ELSE Head(s) + Sum(Tail(s))

\* round(total / n, 2), in hundredths: to the nearest, a tie to the even one
\* (a tie needs 8 to divide n, and then total / n is an exact float).
Round2Down(total, n) == (100 * total) \div n
Round2(total, n) ==
    LET q == (100 * total) \div n
        r == (100 * total) % n
    IN  IF 2 * r < n THEN q
        ELSE IF 2 * r > n THEN q + 1
        ELSE IF q % 2 = 0 THEN q ELSE q + 1

\* The entry create_reviews_index stores for one document; average_score is
\* in hundredths.
ReviewStatsZeroAverage(ratings) ==
    IF ratings # <<>>
    THEN [total_reviews |-> Len(ratings),
          average_score |-> [hundredths |-> Round2(Sum(ratings), Len(ratings))],
          last_score |-> [int |-> ratings[Len(ratings)]]]
    ELSE [total_reviews |-> 0, average_score |-> [hundredths |-> 0],
          last_score |-> None]
ReviewStats(ratings) ==
    IF ratings # <<>>
    THEN [total_reviews |-> Len(ratings),
          average_score |-> [hundredths |-> Round2(Sum(ratings), Len(ratings))],
          last_score |-> [int |-> ratings[Len(ratings)]]]
    ELSE [total_reviews |-> 0, average_score |-> None, last_score |-> None]

RECURSIVE ReviewsAddDocs(_, _, _)
ReviewsAddDocs(index, docs, i) ==
    IF i > Len(docs) THEN Returned(index)
    ELSE IF "url" \notin DOMAIN docs[i] THEN KeyError("url")
    ELSE ReviewsAddDocs(
             Put(index, docs[i].url,
                 ReviewStats(Ratings(Get(docs[i], "product_reviews", <<>>)))),
             docs, i + 1)

create_reviews_index(docs) == ReviewsAddDocs(EmptyDict, docs, 1)

\* The inner loop of create_features_index: one document's features.  The
\* order of the items does not change the index they leave.
RECURSIVE FeaturesAddItems(_, _, _)
FeaturesAddItems(index, doc, features) ==
    IF features = {} THEN Returned(index)
    ELSE IF "url" \notin DOMAIN doc THEN KeyError("url")
    ELSE LET feature == CHOOSE f \in features : TRUE
             value == Lower(doc.product_features[feature])
             byValue == Get(index, feature, EmptyDict)
             listed == Get(byValue, value, <<>>)
         IN  FeaturesAddItems(
                 Put(index, feature,
                     Put(byValue, value,
                         IF doc.url \in Range(listed) THEN listed
                         ELSE Append(listed, doc.url))),
                 doc, features \ {feature})

RECURSIVE FeaturesAddDocs(_, _, _)
FeaturesAddDocs(index, docs, i) ==
    IF i > Len(docs) THEN Returned(index)
    ELSE LET r == FeaturesAddItems(index, docs[i],
                      DOMAIN Get(docs[i], "product_features", EmptyDict))
         IN  IF r.raised THEN r ELSE FeaturesAddDocs(r.index, docs, i + 1)

create_features_index(docs) == FeaturesAddDocs(EmptyDict, docs, 1)

-----------------------------------------------------------------------------
(* indexer.main: load the documents, derive product ids, build and save the
   six indexes.  An exception ends the program. *)

MaxDocs == 2

\* "tea", "Tea of tea!", "box tea", "of"
TitleTexts == {
    <<"t","e","a">>,
    <<"T","e","a"," ","o","f"," ","t","e","a","!">>,
    <<"b","o","x"," ","t","e","a">>,
    <<"o","f">> }

\* "box", "Tea of tea!"
DescriptionTexts == {
    <<"b","o","x">>,
    <<"T","e","a"," ","o","f"," ","t","e","a","!">> }

\* {"brand": "Acme"}, {"brand": "<<"a","c","m","e">>", "origin": "tea"}
FeatureDicts == {
    [brand |-> <<"A","c","m","e">>],
    [brand |-> <<"a","c","m","e">>, origin |-> <<"t","e","a">>] }

WellFormedDocs ==
    [url : Urls, title : TitleTexts, description : DescriptionTexts]
    \cup [url : Urls, title : {<<"t","e","a">>},
          description : {<<"b","o","x">>}, product_features : FeatureDicts]

MalformedDocs ==
    [title : {<<"t","e","a">>, <<"o","f">>}, description : {<<"b","o","x">>}]
    \cup [url : Urls, description : {<<"b","o","x">>}]
    \cup [url : Urls, title : {<<"t","e","a">>}]

TextDocs == WellFormedDocs \cup MalformedDocs

\* Review lists: none, unrated only, one rating, a zero rating, averages
\* that are exact (4.5), round down (13/3) and round up (14/3), and an
\* unrated review among rated ones.
ReviewLists == {
    <<>>,
    <<[text |-> "ok"]>>,
    <<[rating |-> 5]>>,
    <<[rating |-> 0]>>,
    <<[rating |-> 4], [rating |-> 5]>>,
    <<[rating |-> 4], [rating |-> 4], [rating |-> 5]>>,
    <<[rating |-> 5], [rating |-> 5], [rating |-> 4]>>,
    <<[rating |-> 5], [text |-> "ok"], [rating |-> 4]>> }

ReviewDocs ==
    [url : Urls, product_reviews : ReviewLists]
    \cup [url : Urls]
    \cup [product_reviews : {<<[rating |-> 5]>>}]

InitIndexer(Docs) ==
    /\ pc = "extract"
    /\ error = NoError
    /\ data \in SeqsUpTo(Docs, MaxDocs)
    /\ title_index = Unset
    /\ description_index = Unset
    /\ title_positional_index = Unset
    /\ description_positional_index = Unset
    /\ reviews_index = Unset
    /\ features_index = Unset
    /\ TokenizeIdle
    /\ SearchIdle
    /\ CrawlerIdle

Init == InitIndexer(TextDocs)
InitReviews == InitIndexer(ReviewDocs)

\* One step of main: the call returned and main goes on, or it raised.
Goes(at, next, r) ==
    /\ pc = at
    /\ pc' = IF r.raised THEN "aborted" ELSE next
    /\ error' = IF r.raised THEN r ELSE error

\* for doc in data: doc['product_id'], doc['variant'] = extract_product_info(doc['url'])
RECURSIVE ExtractAll(_, _)
ExtractAll(docs, i) ==
    IF i > Len(docs) THEN Returned(docs)
    ELSE IF "url" \notin DOMAIN docs[i] THEN KeyError("url")
    ELSE LET info == extract_product_info(docs[i].url)
         IN  ExtractAll(
                 [docs EXCEPT ![i] = Put(Put(docs[i], "product_id", info.product_id),
                                         "variant", info.variant)],
                 i + 1)

ExtractProductInfo ==
    LET r == ExtractAll(data, 1)
    IN  /\ Goes("extract", "title_index", r)
        /\ data' = IF r.raised THEN data ELSE r.index
        /\ UNCHANGED <<title_index, description_index, title_positional_index,
                       description_positional_index, reviews_index,
                       features_index, tokenizeVars, searchVars, crawlerVars>>

BuildTitleIndex ==
    LET r == create_inverted_index(data, "title")
    IN  /\ Goes("title_index", "description_index", r)
        /\ title_index' = IF r.raised THEN title_index ELSE r.index
        /\ UNCHANGED <<data, description_index, title_positional_index,
                       description_positional_index, reviews_index,
                       features_index, tokenizeVars, searchVars, crawlerVars>>

BuildDescriptionIndex ==
    LET r == create_inverted_index(data, "description")
    IN  /\ Goes("description_index", "title_positional_index", r)
        /\ description_index' = IF r.raised THEN description_index ELSE r.index
        /\ UNCHANGED <<data, title_index, title_positional_index,
                       description_positional_index, reviews_index,
                       features_index, tokenizeVars, searchVars, crawlerVars>>

BuildTitlePositionalIndex ==
    LET r == create_positional_index(data, "title")
    IN  /\ Goes("title_positional_index", "description_positional_index", r)
        /\ title_positional_index' =
               IF r.raised THEN title_positional_index ELSE r.index
        /\ UNCHANGED <<data, title_index, description_index,
                       description_positional_index, reviews_index,
                       features_index, tokenizeVars, searchVars, crawlerVars>>

BuildDescriptionPositionalIndex ==
    LET r == create_positional_index(data, "description")
    IN  /\ Goes("description_positional_index", "reviews_index", r)
        /\ description_positional_index' =
               IF r.raised THEN description_positional_index ELSE r.index
        /\ UNCHANGED <<data, title_index, description_index,
                       title_positional_index, reviews_index,
                       features_index, tokenizeVars, searchVars, crawlerVars>>

BuildReviewsIndex ==
    LET r == create_reviews_index(data)
    IN  /\ Goes("reviews_index", "features_index", r)
        /\ reviews_index' = IF r.raised THEN reviews_index ELSE r.index
        /\ UNCHANGED <<data, title_index, description_index,
                       title_positional_index, description_positional_index,
                       features_index, tokenizeVars, searchVars, crawlerVars>>

BuildFeaturesIndex ==
    LET r == create_features_index(data)
    IN  /\ Goes("features_index", "save", r)
        /\ features_index' = IF r.raised THEN features_index ELSE r.index
        /\ UNCHANGED <<data, title_index, description_index,
                       title_positional_index, description_positional_index,
                       reviews_index, tokenizeVars, searchVars, crawlerVars>>

\* os.makedirs and the six save_index calls
SaveIndexes ==
    /\ pc = "save"
    /\ pc' = "done"
    /\ UNCHANGED <<error, indexerVars, tokenizeVars, searchVars, crawlerVars>>

Next ==
    \/ ExtractProductInfo
    \/ BuildTitleIndex
    \/ BuildDescriptionIndex
    \/ BuildTitlePositionalIndex
    \/ BuildDescriptionPositionalIndex
    \/ BuildReviewsIndex
    \/ BuildFeaturesIndex
    \/ SaveIndexes

Spec == Init /\ [][Next]_vars
SpecReviews == InitReviews /\ [][Next]_vars

-----------------------------------------------------------------------------
(* The index builders' claims *)

PcOrder == <<"extract", "title_index", "description_index",
             "title_positional_index", "description_positional_index",
             "reviews_index", "features_index", "save", "done">>

\* main has passed the step that builds the index of that name.
Built(step) ==
    \E i, j \in DOMAIN PcOrder : PcOrder[i] = step /\ PcOrder[j] = pc /\ i < j

\* The places of url in a list of URLs.
Places(urls, url) == {k \in DOMAIN urls : urls[k] = url}

\* The records of data that carry url.
Carrying(url) == {i \in DOMAIN data : Get(data[i], "url", None) = url}

FieldTokens(doc, field) == Tokenize(Get(doc, field, <<>>))

InvertedIndexRight(index, field) ==
    /\ \A i \in DOMAIN data : \A T \in Range(FieldTokens(data[i], field)) :
          /\ T \in DOMAIN index
          /\ Cardinality(Places(index[T], data[i].url)) = 1
    /\ \A T \in DOMAIN index : \A k \in DOMAIN index[T] :
          \E i \in Carrying(index[T][k]) : T \in Range(FieldTokens(data[i], field))

(* C1: in the index create_inverted_index returns, the URL of every document
   that has term T in its tokenized field occurs in index[T] exactly once,
   and a URL occurs in index[T] only if a record with that URL has T. *)
C1_InvertedIndexUrlOnce ==
    /\ Built("title_index") => InvertedIndexRight(title_index, "title")
    /\ Built("description_index")
          => InvertedIndexRight(description_index, "description")

(* C1's case: the indexes are built from two records of one URL that share a
   term, which one of them repeats. *)
C1_Witness ==
    /\ pc = "done"
    /\ \E i, j \in DOMAIN data : \E T \in DOMAIN title_index :
          /\ i # j
          /\ data[i].url = data[j].url
          /\ T \in Range(FieldTokens(data[j], "title"))
          /\ Cardinality({k \in DOMAIN FieldTokens(data[i], "title") :
                             FieldTokens(data[i], "title")[k] = T}) = 2

\* The increasing sequence of the 0-based indices at which T stands in toks.
RECURSIVE IndicesOf(_, _, _)
IndicesOf(T, toks, k) ==
    IF k > Len(toks) THEN <<>>
    ELSE (IF toks[k] = T THEN <<k - 1>> ELSE <<>>) \o IndicesOf(T, toks, k + 1)

\* The indices of T in each record of data that carries url, one record after
\* the other in input order.
RECURSIVE IndicesByRecord(_, _, _, _)
IndicesByRecord(T, url, field, i) ==
    IF i > Len(data) THEN <<>>
    ELSE (IF Get(data[i], "url", None) = url
          THEN IndicesOf(T, FieldTokens(data[i], field), 1) ELSE <<>>)
         \o IndicesByRecord(T, url, field, i + 1)

AllTerms(field) == UNION {Range(FieldTokens(data[i], field)) : i \in DOMAIN data}

\* index[T][url], or the empty list where the index holds no such entry
Recorded(index, T, url) == Get(Get(index, T, EmptyDict), url, <<>>)

PositionalIndexByRecord(index, field) ==
    /\ DOMAIN index = AllTerms(field)
    /\ \A T \in AllTerms(field) : \A url \in Urls :
          /\ Recorded(index, T, url) = IndicesByRecord(T, url, field, 1)
          /\ url \in DOMAIN index[T] <=> IndicesByRecord(T, url, field, 1) # <<>>

(* C2, as amended: create_positional_index(data, f)[T][url] is the indices of
   T in the tokenized field of each record carrying that URL, one record
   after the other in input order; so where no two records share a URL it is
   the increasing sequence of the 0-based indices of T in that document. *)
C2_PositionsByRecord ==
    /\ Built("title_positional_index")
          => PositionalIndexByRecord(title_positional_index, "title")
    /\ Built("description_positional_index")
          => PositionalIndexByRecord(description_positional_index, "description")

(* C2's case: a term that one record repeats, under a URL that a second
   record carries too. *)
C2_Witness ==
    /\ pc = "done"
    /\ \E T \in DOMAIN title_positional_index :
       \E url \in DOMAIN title_positional_index[T] :
          Len(title_positional_index[T][url]) = 3

PositionalIndexAsStated(index, field) ==
    \A i \in DOMAIN data : \A T \in Range(FieldTokens(data[i], field)) :
        Recorded(index, T, data[i].url) = IndicesOf(T, FieldTokens(data[i], field), 1)

(* C2 as stated: for every document D of any input list and every term T of
   D, index[T][D.url] is the increasing sequence of the indices of T in D's
   tokenized field. *)
C2_AsStated ==
    /\ Built("title_positional_index")
          => PositionalIndexAsStated(title_positional_index, "title")
    /\ Built("description_positional_index")
          => PositionalIndexAsStated(description_positional_index, "description")

\* The last record of data that carries url.
LastCarrying(url) == CHOOSE i \in Carrying(url) : \A j \in Carrying(url) : j <= i

DocRatings(doc) == Ratings(Get(doc, "product_reviews", <<>>))

\* The entry is the statistics of these ratings: the count, the average to
\* within half a hundredth, the last one.
EntryOf(entry, ratings) ==
    /\ entry.total_reviews = Len(ratings)
    /\ entry.average_score = None <=> entry.total_reviews = 0
    /\ ratings # <<>> =>
          /\ "hundredths" \in DOMAIN entry.average_score
          /\ LET off == entry.average_score.hundredths * Len(ratings)
                            - 100 * Sum(ratings)
             IN  2 * off <= Len(ratings) /\ 2 * off >= 0 - Len(ratings)
          /\ entry.last_score = [int |-> ratings[Len(ratings)]]
    /\ ratings = <<>> => entry.last_score = None

(* C3, as amended: create_reviews_index holds one entry per URL of the input,
   computed from the last record carrying that URL (so from every document
   where no two records share a URL): average_score is None if and only if
   total_reviews = 0, and otherwise it is sum(ratings)/total_reviews rounded
   to 2 decimals, total_reviews the number of ratings and last_score the
   last of them. *)
C3_ReviewsEntryOfLastRecord ==
    Built("reviews_index") =>
        /\ DOMAIN reviews_index = {data[i].url : i \in DOMAIN data}
        /\ \A url \in DOMAIN reviews_index :
              EntryOf(reviews_index[url], DocRatings(data[LastCarrying(url)]))

(* C3's case: two records of one URL with different ratings, the entry being
   the rounded average 13/3 = 4.33 of the second. *)
C3_Witness ==
    /\ pc = "done"
    /\ Len(data) = 2
    /\ data[1].url = data[2].url
    /\ DocRatings(data[1]) # DocRatings(data[2])
    /\ reviews_index[data[2].url].average_score = [hundredths |-> 433]

(* C3 as stated: for every document of the input, the entry for its URL is
   the statistics of that document's ratings. *)
C3_AsStated ==
    Built("reviews_index") =>
        \A i \in DOMAIN data :
            /\ data[i].url \in DOMAIN reviews_index
            /\ EntryOf(reviews_index[data[i].url], DocRatings(data[i]))

WellFormed(doc) == {"url", "title", "description"} \subseteq DOMAIN doc
WellFormedData == SelectSeq(data, WellFormed)

(* C8 as stated: a document missing url, title or description is skipped and
   does not abort the build: every builder completes and the indexes are
   those of the well-formed documents alone. *)
C8_MalformedSkipped ==
    /\ pc # "aborted"
    /\ Built("title_index")
          => title_index = create_inverted_index(WellFormedData, "title").index
    /\ Built("description_index")
          => description_index
                 = create_inverted_index(WellFormedData, "description").index
    /\ Built("title_positional_index")
          => title_positional_index
                 = create_positional_index(WellFormedData, "title").index
    /\ Built("description_positional_index")
          => description_positional_index
                 = create_positional_index(WellFormedData, "description").index
    /\ Built("reviews_index")
          => reviews_index = create_reviews_index(WellFormedData).index
    /\ Built("features_index")
          => features_index = create_features_index(WellFormedData).index

-----------------------------------------------------------------------------
(* search_engine.py: TextProcessor.expand_with_synonyms *)

\* The orders in which a set can be listed or iterated.
Perms(S) == {s \in [1..Cardinality(S) -> S] : Range(s) = S}

\* The loop over synonyms_dict.items() for one token.
RECURSIVE ExpandTokenKeysOnly(_, _, _, _)
ExpandTokenKeysOnly(expanded, token, synonyms_dict, keys) ==
    IF keys = {} THEN expanded
    ELSE LET key == CHOOSE k \in keys : TRUE
         IN  ExpandTokenKeysOnly(
                 IF token = key
                 THEN expanded \cup Range(synonyms_dict[key]) \cup {key}
                 ELSE expanded,
                 token, synonyms_dict, keys \ {key})

RECURSIVE ExpandToken(_, _, _, _)
ExpandToken(expanded, token, synonyms_dict, keys) ==
    IF keys = {} THEN expanded
    ELSE LET key == CHOOSE k \in keys : TRUE
             synonyms == synonyms_dict[key]
         IN  ExpandToken(
                 IF token = key \/ token \in Range(synonyms)
                 THEN expanded \cup Range(synonyms) \cup {key}
                 ELSE expanded,
                 token, synonyms_dict, keys \ {key})

RECURSIVE ExpandTokens(_, _, _, _)
ExpandTokens(expanded, toks, synonyms_dict, i) ==
    IF i > Len(toks) THEN expanded
    ELSE ExpandTokens(
             ExpandToken(expanded, toks[i], synonyms_dict, DOMAIN synonyms_dict),
             toks, synonyms_dict, i + 1)

\* The set expand_with_synonyms builds; list(expanded_tokens), which it
\* returns, is that set in the order the set iterates in.
expanded_set(toks, synonyms_dict) == ExpandTokens(Range(toks), toks, synonyms_dict, 1)
expand_with_synonyms(toks, synonyms_dict) == Perms(expanded_set(toks, synonyms_dict))

IndexNames == {"brand_index", "description_index", "domain_index", "origin_index",
               "origin_synonyms", "reviews_index", "title_index"}
EmptyIndexes == [name \in IndexNames |-> EmptyDict]

MaxTokens == 2
MaxSynonyms == 2

\* "usa", "america", "tea"
USA == <<"u","s","a">>
AMERICA == <<"a","m","e","r","i","c","a">>
TEA == <<"t","e","a">>
BOX == <<"b","o","x">>
SynonymTokens == {USA, AMERICA, TEA}
SynonymKeys == {USA, AMERICA}
SynonymTables ==
    UNION {[keys -> SeqsUpTo(SynonymTokens, MaxSynonyms)] : keys \in SUBSET SynonymKeys}

InitExpand ==
    /\ pc = "expand"
    /\ error = NoError
    /\ tokens \in SeqsUpTo(SynonymTokens, MaxTokens)
    /\ \E table \in SynonymTables :
          indexes = [EmptyIndexes EXCEPT !["origin_synonyms"] = table]
    /\ products = Unset
    /\ query = <<>>
    /\ expanded_tokens = <<>>
    /\ matching_docs = {}
    /\ all_docs = {}
    /\ ranked_docs = <<>>
    /\ results_log = <<>>
    /\ RunIdle
    /\ IndexerIdle
    /\ TokenizeIdle
    /\ CrawlerIdle

ExpandWithSynonyms ==
    /\ pc = "expand"
    /\ expanded_tokens' \in expand_with_synonyms(tokens, indexes["origin_synonyms"])
    /\ pc' = "expanded"
    /\ UNCHANGED <<error, indexes, products, query, tokens, matching_docs,
                   all_docs, ranked_docs, results_log, runVars, indexerVars,
                   tokenizeVars, crawlerVars>>

NextExpand == ExpandWithSynonyms

SpecExpand == InitExpand /\ [][NextExpand]_vars

(* C5: expand_with_synonyms returns, without duplicates, exactly every input
   token plus, for every key k of the table such that some input token is k
   or is in table[k], the key k and all of table[k]. *)
C5_ExpansionIsSymmetricUnion ==
    pc = "expanded" =>
        LET table == indexes["origin_synonyms"]
            hit == {k \in DOMAIN table :
                       \E i \in DOMAIN tokens :
                           tokens[i] = k \/ tokens[i] \in Range(table[k])}
        IN  /\ \A i, j \in DOMAIN expanded_tokens :
                  expanded_tokens[i] = expanded_tokens[j] => i = j
            /\ Range(expanded_tokens)
                   = Range(tokens) \cup hit \cup UNION {Range(table[k]) : k \in hit}

(* C5's case: one input token is a synonym of a key it is not itself, another
   is neither a key nor a synonym, and the expansion adds to the tokens. *)
C5_Witness ==
    /\ pc = "expanded"
    /\ LET table == indexes["origin_synonyms"]
       IN  /\ \E i \in DOMAIN tokens : \E k \in DOMAIN table :
                 /\ tokens[i] # k
                 /\ tokens[i] \in Range(table[k])
                 /\ k \notin Range(tokens)
                 /\ k \in Range(expanded_tokens)
           /\ \E i \in DOMAIN tokens :
                 /\ tokens[i] \notin DOMAIN table
                 /\ \A k \in DOMAIN table : tokens[i] \notin Range(table[k])
                 /\ tokens[i] \in Range(expanded_tokens)

-----------------------------------------------------------------------------
(* search_engine.py: DocumentFilter *)

RECURSIVE FilterAnyFrom(_, _, _, _)
FilterAnyFrom(found, idx, toks, i) ==
    IF i > Len(toks) THEN found
    ELSE FilterAnyFrom(
             found
               \cup DOMAIN Get(idx["title_index"], toks[i], EmptyDict)
               \cup DOMAIN Get(idx["description_index"], toks[i], EmptyDict)
               \cup Range(Get(idx["brand_index"], toks[i], <<>>))
               \cup Range(Get(idx["origin_index"], toks[i], <<>>)),
             idx, toks, i + 1)

filter_any_token(idx, toks) == FilterAnyFrom({}, idx, toks, 1)

\* The loop of filter_all_tokens over tokens[1:].
RECURSIVE FilterAllFrom(_, _, _, _)
FilterAllFrom(found, idx, toks, i) ==
    IF i > Len(toks) THEN found
    ELSE FilterAllFrom(found \cap filter_any_token(idx, <<toks[i]>>),
                       idx, toks, i + 1)

filter_all_tokens_first_only(idx, toks) ==
    IF toks = <<>> THEN {} ELSE filter_any_token(idx, <<toks[1]>>)
filter_all_tokens(idx, toks) ==
    IF toks = <<>> THEN {}
    ELSE FilterAllFrom(filter_any_token(idx, <<toks[1]>>), idx, toks, 2)

\* The indexes of the filter's model: each (token, URL) pair is listed in
\* none, one or two of the four indexes the filter reads.
FilterTokens == {TEA, BOX, USA}
IndexedTokens == {TEA, BOX}
Listings == {{}, {"title_index"}, {"description_index"}, {"brand_index"},
             {"origin_index"}, {"title_index", "brand_index"}}

\* A list holding the elements of S.
ListOf(S) == CHOOSE s \in Perms(S) : TRUE

\* An index of the shape of the title index: token -> {url -> positions}.
DictIndex(listing, name) ==
    LET listed(t) == {u \in Urls : name \in listing[<<t, u>>]}
    IN  [t \in {t \in IndexedTokens : listed(t) # {}} |-> [u \in listed(t) |-> <<0>>]]

\* An index of the shape of the brand index: token -> [url, ...].
ListIndex(listing, name) ==
    LET listed(t) == {u \in Urls : name \in listing[<<t, u>>]}
    IN  [t \in {t \in IndexedTokens : listed(t) # {}} |-> ListOf(listed(t))]

IndexesOf(listing) ==
    [EmptyIndexes EXCEPT
        !["title_index"] = DictIndex(listing, "title_index"),
        !["description_index"] = DictIndex(listing, "description_index"),
        !["brand_index"] = ListIndex(listing, "brand_index"),
        !["origin_index"] = ListIndex(listing, "origin_index")]

InitFilter ==
    /\ pc = "filter_any"
    /\ error = NoError
    /\ tokens \in SeqsUpTo(FilterTokens, MaxTokens)
    /\ \E listing \in [IndexedTokens \X Urls -> Listings] :
          indexes = IndexesOf(listing)
    /\ products = Unset
    /\ query = <<>>
    /\ expanded_tokens = <<>>
    /\ matching_docs = {}
    /\ all_docs = {}
    /\ ranked_docs = <<>>
    /\ results_log = <<>>
    /\ RunIdle
    /\ IndexerIdle
    /\ TokenizeIdle
    /\ CrawlerIdle

FilterAnyToken ==
    /\ pc = "filter_any"
    /\ matching_docs' = filter_any_token(indexes, tokens)
    /\ pc' = "filter_all"
    /\ UNCHANGED <<error, indexes, products, query, tokens, expanded_tokens,
                   all_docs, ranked_docs, results_log, runVars, indexerVars,
                   tokenizeVars, crawlerVars>>

FilterAllTokens ==
    /\ pc = "filter_all"
    /\ all_docs' = filter_all_tokens(indexes, tokens)
    /\ pc' = "filtered"
    /\ UNCHANGED <<error, indexes, products, query, tokens, expanded_tokens,
                   matching_docs, ranked_docs, results_log, runVars,
                   indexerVars, tokenizeVars, crawlerVars>>

NextFilter == FilterAnyToken \/ FilterAllTokens

SpecFilter == InitFilter /\ [][NextFilter]_vars

\* d is listed under token t in at least one of the four indexes.
ListedUnder(d, t) ==
    \/ t \in DOMAIN indexes["title_index"] /\ d \in DOMAIN indexes["title_index"][t]
    \/ t \in DOMAIN indexes["description_index"]
          /\ d \in DOMAIN indexes["description_index"][t]
    \/ t \in DOMAIN indexes["brand_index"]
          /\ \E k \in DOMAIN indexes["brand_index"][t] : indexes["brand_index"][t][k] = d
    \/ t \in DOMAIN indexes["origin_index"]
          /\ \E k \in DOMAIN indexes["origin_index"][t] : indexes["origin_index"][t][k] = d

(* C6: for a non-empty token list filter_all_tokens is exactly the documents
   listed under every token in at least one of the title, description, brand
   and origin indexes; it is a subset of filter_any_token; and for an empty
   token list both return the empty set. *)
C6_FilterAllIsIntersection ==
    pc = "filtered" =>
        /\ tokens # <<>> =>
              all_docs = {d \in Urls : \A i \in DOMAIN tokens : ListedUnder(d, tokens[i])}
        /\ all_docs \subseteq matching_docs
        /\ tokens = <<>> => all_docs = {} /\ matching_docs = {}

(* C6's case: two different tokens, a document listed under both (through
   different indexes) and another listed under only one of them. *)
C6_Witness ==
    /\ pc = "filtered"
    /\ Len(tokens) = 2
    /\ tokens[1] # tokens[2]
    /\ all_docs # {}
    /\ all_docs # matching_docs
    /\ \E d \in all_docs :
          /\ d \in DOMAIN Get(indexes["title_index"], tokens[1], EmptyDict)
          /\ d \in Range(Get(indexes["origin_index"], tokens[2], <<>>))

-----------------------------------------------------------------------------
(* search_engine.py: TextProcessor.tokenize *)

Digits == {"0", "1", "2", "3", "4", "5", "6", "7", "8", "9"}
IsLetter(c) == c \in Range(LowerChars) \/ c \in Range(UpperChars)

\* \w
IsWordChar(c) == IsLetter(c) \/ c \in Digits \/ c = "_"

\* str.isalpha()
IsAlpha(t) == t # <<>> /\ \A i \in DOMAIN t : IsLetter(t[i])

\* stopwords.words("english") of NLTK, less the entries with an apostrophe,
\* which no alphabetic token equals.
NltkStopwords == {
<<"i">>, <<"m","e">>, <<"m","y">>, <<"m","y","s","e","l","f">>,
    <<"w","e">>, <<"o","u","r">>, <<"o","u","r","s">>,
    <<"o","u","r","s","e","l","v","e","s">>, <<"y","o","u">>,
    <<"y","o","u","r">>, <<"y","o","u","r","s">>,
    <<"y","o","u","r","s","e","l","f">>,
    <<"y","o","u","r","s","e","l","v","e","s">>, <<"h","e">>, <<"h","i","m">>,
    <<"h","i","s">>, <<"h","i","m","s","e","l","f">>, <<"s","h","e">>,
    <<"h","e","r">>, <<"h","e","r","s">>, <<"h","e","r","s","e","l","f">>,
    <<"i","t">>, <<"i","t","s">>, <<"i","t","s","e","l","f">>,
    <<"t","h","e","y">>, <<"t","h","e","m">>, <<"t","h","e","i","r">>,
    <<"t","h","e","i","r","s">>, <<"t","h","e","m","s","e","l","v","e","s">>,
    <<"w","h","a","t">>, <<"w","h","i","c","h">>, <<"w","h","o">>,
    <<"w","h","o","m">>, <<"t","h","i","s">>, <<"t","h","a","t">>,
    <<"t","h","e","s","e">>, <<"t","h","o","s","e">>, <<"a","m">>, <<"i","s">>,
    <<"a","r","e">>, <<"w","a","s">>, <<"w","e","r","e">>, <<"b","e">>,
    <<"b","e","e","n">>, <<"b","e","i","n","g">>, <<"h","a","v","e">>,
    <<"h","a","s">>, <<"h","a","d">>, <<"h","a","v","i","n","g">>, <<"d","o">>,
    <<"d","o","e","s">>, <<"d","i","d">>, <<"d","o","i","n","g">>, <<"a">>,
    <<"a","n">>, <<"t","h","e">>, <<"a","n","d">>, <<"b","u","t">>,
    <<"i","f">>, <<"o","r">>, <<"b","e","c","a","u","s","e">>, <<"a","s">>,
    <<"u","n","t","i","l">>, <<"w","h","i","l","e">>, <<"o","f">>, <<"a","t">>,
    <<"b","y">>, <<"f","o","r">>, <<"w","i","t","h">>, <<"a","b","o","u","t">>,
    <<"a","g","a","i","n","s","t">>, <<"b","e","t","w","e","e","n">>,
    <<"i","n","t","o">>, <<"t","h","r","o","u","g","h">>,
    <<"d","u","r","i","n","g">>, <<"b","e","f","o","r","e">>,
    <<"a","f","t","e","r">>, <<"a","b","o","v","e">>, <<"b","e","l","o","w">>,
    <<"t","o">>, <<"f","r","o","m">>, <<"u","p">>, <<"d","o","w","n">>,
    <<"i","n">>, <<"o","u","t">>, <<"o","n">>, <<"o","f","f">>,
    <<"o","v","e","r">>, <<"u","n","d","e","r">>, <<"a","g","a","i","n">>,
    <<"f","u","r","t","h","e","r">>, <<"t","h","e","n">>, <<"o","n","c","e">>,
    <<"h","e","r","e">>, <<"t","h","e","r","e">>, <<"w","h","e","n">>,
    <<"w","h","e","r","e">>, <<"w","h","y">>, <<"h","o","w">>, <<"a","l","l">>,
    <<"a","n","y">>, <<"b","o","t","h">>, <<"e","a","c","h">>, <<"f","e","w">>,
    <<"m","o","r","e">>, <<"m","o","s","t">>, <<"o","t","h","e","r">>,
    <<"s","o","m","e">>, <<"s","u","c","h">>, <<"n","o">>, <<"n","o","r">>,
    <<"n","o","t">>, <<"o","n","l","y">>, <<"o","w","n">>, <<"s","a","m","e">>,
    <<"s","o">>, <<"t","h","a","n">>, <<"t","o","o">>, <<"v","e","r","y">>,
    <<"s">>, <<"t">>, <<"c","a","n">>, <<"w","i","l","l">>,
    <<"j","u","s","t">>, <<"d","o","n">>, <<"s","h","o","u","l","d">>,
    <<"n","o","w">>, <<"d">>, <<"l","l">>, <<"m">>, <<"o">>, <<"r","e">>,
    <<"v","e">>, <<"y">>, <<"a","i","n">>, <<"a","r","e","n">>,
    <<"c","o","u","l","d","n">>, <<"d","i","d","n">>, <<"d","o","e","s","n">>,
    <<"h","a","d","n">>, <<"h","a","s","n">>, <<"h","a","v","e","n">>,
    <<"i","s","n">>, <<"m","a">>, <<"m","i","g","h","t","n">>,
    <<"m","u","s","t","n">>, <<"n","e","e","d","n">>, <<"s","h","a","n">>,
    <<"s","h","o","u","l","d","n">>, <<"w","a","s","n">>,
    <<"w","e","r","e","n">>, <<"w","o","n">>, <<"w","o","u","l","d","n">> }

\* re.findall(r'\b\w+(?:-\w+)*\b', s): runs of word characters, joined by
\* single hyphens that stand between two word characters.
RECURSIVE FindWords(_, _, _, _)
FindWords(s, i, word, acc) ==
    IF i > Len(s)
    THEN IF word = <<>> THEN acc ELSE Append(acc, word)
    ELSE IF IsWordChar(s[i])
         THEN FindWords(s, i + 1, Append(word, s[i]), acc)
    ELSE IF s[i] = "-" /\ word # <<>> /\ i < Len(s) /\ IsWordChar(s[i + 1])
         THEN FindWords(s, i + 1, Append(word, s[i]), acc)
    ELSE FindWords(s, i + 1, <<>>, IF word = <<>> THEN acc ELSE Append(acc, word))

TextProcessor_tokenize(s) ==
    SelectSeq(FindWords(Lower(s), 1, <<>>, <<>>),
              LAMBDA t : IsAlpha(t) /\ t \notin NltkStopwords)

\* str.strip()
RECURSIVE Strip(_)
Strip(s) ==
    IF s = <<>> THEN s
    ELSE IF Head(s) \in Whitespace THEN Strip(Tail(s))
    ELSE IF s[Len(s)] \in Whitespace THEN Strip(SubSeq(s, 1, Len(s) - 1))
    ELSE s

-----------------------------------------------------------------------------
(* search_engine.py: BM25Ranker.  A score is an integer number of
   ten-thousandths; the BM25 terms are computed in thousandths. *)

Value(v) == [raised |-> FALSE, value |-> v]
LookupError(type, key, doc_url) ==
    [raised |-> TRUE, type |-> type, key |-> key, doc_url |-> doc_url]

Count(seq, x) == Cardinality({k \in DOMAIN seq : seq[k] = x})

\* math.log((N - doc_count + 0.5) / (doc_count + 0.5) + 1) in thousandths,
\* for N = 0..4 products (the rows) and doc_count = 1..8 (the columns).
IdfTable == <<
    <<-405, -916, -1253, -1504, -1705, -1872, -2015, -2140>>,
    <<288, -223, -560, -811, -1012, -1179, -1322, -1447>>,
    <<693, 182, -154, -405, -606, -773, -916, -1041>>,
    <<981, 470, 134, -118, -318, -486, -629, -754>>,
    <<1204, 693, 357, 105, -95, -262, -405, -531>> >>

Idf(N, doc_count) == IdfTable[N + 1][doc_count]

\* avg_doc_length
AvgDocLength == 300

\* The loop of compute_bm25_score over query_tokens, with k1 = 1.5, b = 0.75:
\* numerator / denominator = 2.5 tf / (tf + 0.375 + 1.125 doc_length / 300).
RECURSIVE Bm25From(_, _, _, _, _)
Bm25From(score, idx, doc_tokens, query_tokens, i) ==
    IF i > Len(query_tokens) THEN score
    ELSE LET token == query_tokens[i]
             tf == Count(doc_tokens, token)
             doc_count ==
                 Cardinality(DOMAIN Get(idx["title_index"], token, EmptyDict))
                 + Cardinality(DOMAIN Get(idx["description_index"], token, EmptyDict))
         IN  IF doc_count = 0
             THEN Bm25From(score, idx, doc_tokens, query_tokens, i + 1)
             ELSE Bm25From(
                      score + (Idf(Cardinality(DOMAIN products), doc_count)
                                  * 20000 * tf)
                              \div (8000 * tf + 3000
                                    + (9000 * Len(doc_tokens)) \div AvgDocLength),
                      idx, doc_tokens, query_tokens, i + 1)

compute_bm25_score(idx, doc_url, query_tokens) ==
    IF doc_url \notin DOMAIN products
    THEN LookupError("KeyError", doc_url, doc_url)
    ELSE LET doc == products[doc_url]
             doc_text == Get(doc, "title", <<>>) \o <<" ">>
                             \o Get(doc, "description", <<>>)
         IN  Value(Bm25From(0, idx, TextProcessor_tokenize(doc_text),
                            query_tokens, 1))

\* min(review_data['total_reviews'], 10)
ReviewCap == 10

\* The review score of compute_final_score:
\* (mean_mark * 0.3 + min(total_reviews, 10) * 0.1) * 0.3
review_score(idx, doc_url) ==
    IF doc_url \notin DOMAIN idx["reviews_index"] THEN Value(0)
    ELSE LET review_data == idx["reviews_index"][doc_url]
         IN  IF "mean_mark" \notin DOMAIN review_data
             THEN LookupError("KeyError", "mean_mark", doc_url)
             ELSE IF review_data.mean_mark = None
             THEN LookupError("TypeError", "mean_mark", doc_url)
             ELSE LET counted == IF review_data.total_reviews < ReviewCap
                                 THEN review_data.total_reviews ELSE ReviewCap
                  IN  Value(9 * review_data.mean_mark.hundredths + 300 * counted)

compute_final_score(idx, doc_url, raw_query, query_tokens) ==
    IF doc_url \notin DOMAIN products
    THEN LookupError("KeyError", doc_url, doc_url)
    ELSE LET doc == products[doc_url]
             bm25 == compute_bm25_score(idx, doc_url, query_tokens)
             asked == Strip(Lower(raw_query))
             exact == IF \/ asked = Strip(Lower(Get(doc, "title", <<>>)))
                         \/ asked = Strip(Lower(Get(doc, "brand", <<>>)))
                      THEN 20000 ELSE 0
             title_tokens == TextProcessor_tokenize(Get(doc, "title", <<>>))
             title_matches ==
                 Cardinality({i \in DOMAIN query_tokens :
                                 query_tokens[i] \in Range(title_tokens)})
             review == review_score(idx, doc_url)
         IN  IF bm25.raised THEN bm25
             ELSE IF review.raised THEN review
             ELSE Value([bm25_score |-> 4 * bm25.value,
                         exact_match_score |-> exact,
                         title_match_score |-> 2000 * title_matches,
                         review_score |-> review.value,
                         final_score |-> 4 * bm25.value + exact
                                         + 2000 * title_matches + review.value])

\* round(x, 3) of a score in ten-thousandths: thousandths, a tie to the even.
Round3(x) ==
    LET q == x \div 10
        r == x % 10
    IN  IF r < 5 THEN q ELSE IF r > 5 THEN q + 1
        ELSE IF q % 2 = 0 THEN q ELSE q + 1

NoTitle == <<"N", "o", " ", "T", "i", "t", "l", "e">>

\* The loop of __main__ over matching_docs, in the order the set iterates in.
RECURSIVE RankFrom(_, _, _, _, _, _)
RankFrom(ranked, idx, order, raw_query, query_tokens, i) ==
    IF i > Len(order) THEN Value(ranked)
    ELSE LET doc_url == order[i]
             scores == compute_final_score(idx, doc_url, raw_query, query_tokens)
             doc == Get(products, doc_url, [title |-> NoTitle, description |-> <<>>])
         IN  IF scores.raised THEN scores
             ELSE RankFrom(
                      Append(ranked,
                             [title |-> doc.title, url |-> doc_url,
                              description |-> doc.description,
                              scores |-> scores.value,
                              score |-> Round3(scores.value.final_score)]),
                      idx, order, raw_query, query_tokens, i + 1)

\* list.sort(key=score, reverse=True): stable, so equal scores keep the order
\* they were appended in.
InsertByScore(sorted, e) ==
    LET before == {k \in DOMAIN sorted : sorted[k].score >= e.score}
    IN  SubSeq(sorted, 1, Cardinality(before)) \o <<e>>
        \o SubSeq(sorted, Cardinality(before) + 1, Len(sorted))

RECURSIVE SortByScore(_, _, _)
SortByScore(sorted, ranked, i) ==
    IF i > Len(ranked) THEN sorted
    ELSE SortByScore(InsertByScore(sorted, ranked[i]), ranked, i + 1)

-----------------------------------------------------------------------------
(* search_engine.py: the __main__ block, started up to MaxRuns times on the
   same index files and product store. *)

MaxQueries == 2
MaxRuns == 2

CHAI == <<"c","h","a","i">>
RankTokens == {TEA, BOX}
RankTitles == {<<"T","e","a">>, <<"T","e","a"," ","b","o","x">>}
RankQueries == {<<"T","e","a">>, <<"t","e","a"," ","b","o","x">>}

\* products.jsonl, one line per url.
Stores ==
    UNION {[U -> RankTitles] : U \in SUBSET Urls \ {{}}}
ProductOf(store, u) == [url |-> u, title |-> store[u], description |-> <<>>]

\* reviews_index.json as create_reviews_index writes it.
BuiltReviews ==
    create_reviews_index(
        <<[url |-> Url1, product_reviews |-> <<>>],
          [url |-> Url2, product_reviews |-> <<[rating |-> 4], [rating |-> 5]>>]>>).index

\* reviews_index.json with the fields compute_final_score reads.
MarkedReviews(total1, mark1, total2, mark2) ==
    (Url1 :> [total_reviews |-> total1, mean_mark |-> mark1])
    @@ (Url2 :> [total_reviews |-> total2, mean_mark |-> mark2])

ReviewIndexes ==
    {EmptyDict,
     BuiltReviews,
     MarkedReviews(0, [hundredths |-> 0], 5, [hundredths |-> 450]),
     MarkedReviews(10, [hundredths |-> 450], 12, [hundredths |-> 450])}

\* The elements of S in the order the process's hash seed gives them.
Ordered(S, order) == SelectSeq(order, LAMBDA x : x \in S)

InitRank ==
    /\ pc = "start"
    /\ error = NoError
    /\ \E store \in Stores, stored \in SUBSET Urls, reviews \in ReviewIndexes :
          /\ stored \subseteq DOMAIN store
          /\ products = [u \in stored |-> ProductOf(store, u)]
          /\ indexes =
                 [EmptyIndexes EXCEPT
                     !["title_index"] =
                         create_positional_index(
                             [i \in 1..Cardinality(DOMAIN store) |->
                                 ProductOf(store, ListOf(DOMAIN store)[i])],
                             "title").index,
                     !["origin_synonyms"] = (BOX :> <<CHAI>>),
                     !["reviews_index"] = reviews]
    /\ test_queries \in SeqsUpTo(RankQueries, MaxQueries) \ {<<>>}
    /\ todo = <<>>
    /\ seed = Unset
    /\ runs = 0
    /\ query = <<>>
    /\ tokens = <<>>
    /\ expanded_tokens = <<>>
    /\ matching_docs = {}
    /\ all_docs = {}
    /\ ranked_docs = <<>>
    /\ results_log = <<>>
    /\ IndexerIdle
    /\ TokenizeIdle
    /\ CrawlerIdle

\* python search_engine.py
StartExecution ==
    /\ pc \in {"start", "exited", "crashed"}
    /\ runs < MaxRuns
    /\ runs' = runs + 1
    /\ seed' \in [urls : Perms(Urls), tokens : Perms(RankTokens \cup {CHAI})]
    /\ todo' = test_queries
    /\ error' = NoError
    /\ pc' = "query"
    /\ UNCHANGED <<indexes, products, query, tokens, expanded_tokens,
                   matching_docs, all_docs, ranked_docs, results_log,
                   test_queries, indexerVars, tokenizeVars, crawlerVars>>

\* for query in test_queries: tokenize, expand_with_synonyms, filter_any_token
ProcessQuery ==
    /\ pc = "query"
    /\ todo # <<>>
    /\ query' = Head(todo)
    /\ todo' = Tail(todo)
    /\ tokens' = TextProcessor_tokenize(Head(todo))
    /\ expanded_tokens' =
           Ordered(expanded_set(tokens', indexes["origin_synonyms"]), seed.tokens)
    /\ matching_docs' = filter_any_token(indexes, expanded_tokens')
    /\ ranked_docs' = <<>>
    /\ pc' = "rank"
    /\ UNCHANGED <<error, indexes, products, all_docs, results_log,
                   test_queries, seed, runs, indexerVars, tokenizeVars,
                   crawlerVars>>

\* for doc_url in matching_docs: ...; ranked_docs.sort(...)
RankDocs ==
    /\ pc = "rank"
    /\ LET r == RankFrom(<<>>, indexes, Ordered(matching_docs, seed.urls),
                         query, expanded_tokens, 1)
       IN  /\ pc' = IF r.raised THEN "crashed" ELSE "save"
           /\ error' = IF r.raised THEN r ELSE error
           /\ ranked_docs' = IF r.raised THEN ranked_docs
                             ELSE SortByScore(<<>>, r.value, 1)
    /\ UNCHANGED <<indexes, products, query, tokens, expanded_tokens,
                   matching_docs, all_docs, results_log, runVars,
                   indexerVars, tokenizeVars, crawlerVars>>

\* save_results_as_json(results, query); the timestamp is left out.
SaveResults ==
    /\ pc = "save"
    /\ results_log' =
           Append(results_log,
                  [query |-> query,
                   total_documents |-> Cardinality(DOMAIN products),
                   filtered_documents |-> Cardinality(matching_docs),
                   results |-> ranked_docs])
    /\ pc' = "query"
    /\ UNCHANGED <<error, indexes, products, query, tokens, expanded_tokens,
                   matching_docs, all_docs, ranked_docs, runVars,
                   indexerVars, tokenizeVars, crawlerVars>>

\* The loop over test_queries is over.
Exit ==
    /\ pc = "query"
    /\ todo = <<>>
    /\ pc' = "exited"
    /\ UNCHANGED <<error, indexerVars, tokenizeVars, searchVars, crawlerVars>>

NextRank == StartExecution \/ ProcessQuery \/ RankDocs \/ SaveResults \/ Exit

SpecRank == InitRank /\ [][NextRank]_vars

-----------------------------------------------------------------------------
(* Claims about the ranking *)

(* C4: the same query against the same indexes and product store always
   yields the identical ranked results: the same URLs in the same order,
   documents of equal score included, with identical scores, whatever order
   the candidate set and the expanded-token set iterate in. *)
C4_RankingDeterministic ==
    \A i, j \in DOMAIN results_log :
        results_log[i].query = results_log[j].query
            => results_log[i].results = results_log[j].results

\* A token that no index has.
Unindexed(t) ==
    \A name \in {"title_index", "description_index", "brand_index", "origin_index"} :
        t \notin DOMAIN indexes[name]

(* C7: a candidate that the index lookup returns and the product store lacks
   is skipped (scoring it raises nothing, the query completes and the other
   candidates are ranked), and a query token that no index has adds nothing
   to any score. *)
C7_MissingProductSkipped ==
    /\ pc = "crashed" => error.doc_url \in DOMAIN products
    /\ pc = "save" =>
          /\ {ranked_docs[k].url : k \in DOMAIN ranked_docs}
                 = matching_docs \cap DOMAIN products
          /\ \A k \in DOMAIN ranked_docs :
                ranked_docs[k].scores
                    = compute_final_score(
                          indexes, ranked_docs[k].url, query,
                          SelectSeq(expanded_tokens, LAMBDA t : ~Unindexed(t))).value

\* The document has no reviews: no entry of the reviews index, or one of none.
NoReviews(doc_url) ==
    doc_url \in DOMAIN indexes["reviews_index"]
        => indexes["reviews_index"][doc_url].total_reviews = 0

(* C9: scoring a document without reviews raises nothing and gives it a
   review_score of 0, and two documents of the same average whose review
   counts are 10 and more than 10 get the same review_score. *)
C9_NoReviewsScoreZero ==
    /\ pc = "crashed" /\ error.doc_url \in DOMAIN products
          => ~NoReviews(error.doc_url)
    /\ pc = "save" =>
          /\ \A k \in DOMAIN ranked_docs :
                NoReviews(ranked_docs[k].url)
                    => ranked_docs[k].scores.review_score = 0
          /\ \A k, l \in DOMAIN ranked_docs :
                LET rk == indexes["reviews_index"][ranked_docs[k].url]
                    rl == indexes["reviews_index"][ranked_docs[l].url]
                IN  (/\ ranked_docs[k].url \in DOMAIN indexes["reviews_index"]
                     /\ ranked_docs[l].url \in DOMAIN indexes["reviews_index"]
                     /\ rk.total_reviews = ReviewCap
                     /\ rl.total_reviews > ReviewCap
                     /\ "mean_mark" \in DOMAIN rk /\ "mean_mark" \in DOMAIN rl
                     /\ rk.mean_mark = rl.mean_mark)
                    => ranked_docs[k].scores.review_score
                           = ranked_docs[l].scores.review_score

-----------------------------------------------------------------------------
(* crawler.py: crawl and fetch_page.  The site answers each request as it
   likes: a page with any of the link lists of PageHrefs, or a failure. *)

MaxPages == 3

START_URL == "https://web-scraping.dev/products"
Product1 == "https://web-scraping.dev/product/1"
Product2 == "https://web-scraping.dev/product/2"
Login == "https://web-scraping.dev/login"
Offsite == "https://example.org/product/9"
Hrefs == {START_URL, Product1, Product2, Login, Offsite}

\* urlparse(url).netloc and urlparse(url).scheme
Netloc(url) == IF url = Offsite THEN "example.org" ELSE "web-scraping.dev"
Scheme(url) == "https"

\* "product" in link
HasProduct(link) == link \in {START_URL, Product1, Product2, Offsite}

is_valid_url(url, base_domain) ==
    Netloc(url) = base_domain /\ Scheme(url) \in {"http", "https"}

\* The hrefs are absolute, so urljoin leaves them as they are.
get_urls(hrefs, base_domain) ==
    SelectSeq(hrefs, LAMBDA link : is_valid_url(link, base_domain))

\* The <a href> lists a page can hold: none, the same link twice, a link
\* back to the start, links that are not queued.
PageHrefs ==
    {<<>>, <<Product1, Product1>>, <<Product1, Product2>>,
     <<Product2, START_URL>>, <<Login, Offsite>>}

\* extract_page_data: None when the request or the parsing raised.
extract_page_data(url, response) ==
    IF response = None THEN None
    ELSE [title |-> <<>>, url |-> url, first_paragraph |-> <<>>,
          links |-> get_urls(response.hrefs, Netloc(url))]
Responses == {None} \cup {[hrefs |-> h] : h \in PageHrefs}

\* can_fetch, when robots.txt could be read.
can_fetch(url, disallowed) == url \notin disallowed

\* if current_url in visited: return
SkipNever(current_url, seen) == FALSE
Skip(current_url, seen) == current_url \in seen

\* for link in data["links"]: if "product" in link and link not in visited
NewLinks(links, seen) ==
    SelectSeq(links, LAMBDA link : HasProduct(link) /\ link \notin seen)

Crawled(raised, q, seen, found) ==
    [raised |-> raised, queue |-> q, visited |-> seen, results |-> found]

\* fetch_page.  reachable: whether robots.txt could be requested at all
\* (RobotFileParser.read lets a URLError through); response: what the site
\* answers to the request of the page.
fetch_page(q, seen, found, disallowed, reachable, response) ==
    LET current_url == Head(q)
        data_ == extract_page_data(current_url, response)
    IN  IF Skip(current_url, seen) THEN Crawled(FALSE, Tail(q), seen, found)
        ELSE IF ~reachable THEN Crawled(TRUE, Tail(q), seen, found)
        ELSE IF ~can_fetch(current_url, disallowed)
             THEN Crawled(FALSE, Tail(q), seen, found)
        ELSE IF data_ = None
             THEN Crawled(FALSE, Tail(q), seen \cup {current_url}, found)
        ELSE Crawled(FALSE, Tail(q) \o NewLinks(data_.links, seen),
                     seen \cup {current_url}, Append(found, data_))

\* while queue and len(visited) < max_pages
LoopConditionQueueOnly(q, seen, limit) == q # <<>>
LoopCondition(q, seen, limit) == q # <<>> /\ Cardinality(seen) < limit

InitCrawl ==
    /\ pc = "crawling"
    /\ error = NoError
    /\ start_url \in {START_URL, Product1}
    /\ max_pages \in 0..MaxPages
    /\ robots \in SUBSET {START_URL, Product1, Product2}
    /\ queue = <<start_url>>
    /\ visited = {}
    /\ results = <<>>
    /\ IndexerIdle
    /\ TokenizeIdle
    /\ SearchIdle

\* One iteration of the loop of crawl.
FetchPage ==
    /\ pc = "crawling"
    /\ LoopCondition(queue, visited, max_pages)
    /\ \E reachable \in BOOLEAN, response \in Responses :
          LET r == fetch_page(queue, visited, results, robots, reachable, response)
          IN  /\ queue' = r.queue
              /\ visited' = r.visited
              /\ results' = r.results
              /\ pc' = IF r.raised THEN "raised" ELSE "crawling"
              /\ error' = IF r.raised
                          THEN [raised |-> TRUE, type |-> "URLError",
                                key |-> Head(queue)]
                          ELSE error
    /\ UNCHANGED <<start_url, max_pages, robots, indexerVars, tokenizeVars,
                   searchVars>>

\* return results
ReturnResults ==
    /\ pc = "crawling"
    /\ ~LoopCondition(queue, visited, max_pages)
    /\ pc' = "returned"
    /\ UNCHANGED <<error, crawlerVars, indexerVars, tokenizeVars, searchVars>>

NextCrawl == FetchPage \/ ReturnResults

SpecCrawl == InitCrawl /\ [][NextCrawl]_vars

\* A running crawl goes on running.
SpecCrawlFair == SpecCrawl /\ WF_vars(NextCrawl)

-----------------------------------------------------------------------------
(* Claims about the crawler *)

(* C11: in every reachable state of crawl no two records of results have the
   same url, every url of results is in visited, and no url of results is
   disallowed by robots.txt. *)
C11_ResultsUrlsUnique ==
    /\ \A i, j \in DOMAIN results : results[i].url = results[j].url => i = j
    /\ \A i \in DOMAIN results : results[i].url \in visited
    /\ \A i \in DOMAIN results : results[i].url \notin robots

(* C11's case: the crawl returned with an empty queue and two records, a
   page linked to itself, and a page linked to a URL that robots.txt
   disallows. *)
C11_Witness ==
    /\ pc = "returned"
    /\ queue = <<>>
    /\ Len(results) >= 2
    /\ \E i \in DOMAIN results : results[i].url \in Range(results[i].links)
    /\ \E i \in DOMAIN results : \E k \in DOMAIN results[i].links :
          results[i].links[k] \in robots

(* C12: crawl terminates; every iteration of its loop either takes one entry
   off the queue and adds none, visited unchanged, or adds exactly one URL to
   visited; and len(results) <= len(visited) <= max_pages throughout. *)
C12_CrawlTerminates ==
    /\ <>(pc \in {"returned", "raised"})
    /\ [](Len(results) <= Cardinality(visited)
          /\ Cardinality(visited) <= max_pages)
    /\ [][pc' # "returned" =>
             \/ Len(queue') = Len(queue) - 1 /\ visited' = visited
             \/ /\ visited \subseteq visited'
                /\ Cardinality(visited') = Cardinality(visited) + 1]_crawlerVars

(* C12's case: the crawl returned with an empty queue below max_pages, after
   robots.txt refused a URL that a page linked to and after a request
   failed. *)
C12_Witness ==
    /\ pc = "returned"
    /\ queue = <<>>
    /\ Cardinality(visited) < max_pages
    /\ \E i \in DOMAIN results : \E k \in DOMAIN results[i].links :
          results[i].links[k] \in robots /\ HasProduct(results[i].links[k])
    /\ \E u \in visited : \A i \in DOMAIN results : results[i].url # u

=============================================================================
